---- MODULE Spec2Model ----
(***************************************************************************)
(* MediaStreamPro: the storage pool (GoogleDriveService over the account   *)
(* store), the conversion pipeline (POST /api/job/hls/create, the job      *)
(* queue, HlsConverter) and the chunked upload assembler (Chunker and the  *)
(* /api/upload routes), each as a state machine whose steps are the code's *)
(* awaits.                                                                 *)
(***************************************************************************)
EXTENDS Integers, Sequences, FiniteSets, TLC

(***************************************************************************)
(* Bounds of the model.                                                    *)
(***************************************************************************)
NumAccounts == 2
NumPuts == 2
MaxFileSize == 2
NumReqs == 2
MaxResolutionsPerRequest == 2
MaxRuns == 2
NumSegments == 2
MaxHandlers == 3
MaxChunkIndex == 2
MaxSubmits == 3
NumFetches == 2
NumInits == 2
NumBlobs == 1
MaxClockHours == 190
MaxUploads == 2
MaxPercent == 12
MaxCallbacks == 2

(***************************************************************************)
(* Program constants.                                                      *)
(***************************************************************************)
\* "avoid those with <10% free"
ReserveMarginPercent == 10
ComfortMarginPercent == 50
\* currentProgress >= lastProgress + 5
ProgressStep == 5
\* the conversion worker's concurrency
WorkerConcurrency == 2
\* padStart(5, '0') of the chunk file names
ChunkNamePad == 5
\* maxCacheTime of getFileFromCacheOrDownload: 24 * 60 * 60 * 1000 ms, in hours
MaxCacheTimeHours == 24
\* "Cache .ts chunks in /temp/cache with a TTL of 7 days", in hours
SegmentCacheTtlHours == 168

VARIABLES
    \* ---- storage pool ----
    accounts,        \* the account store, in store order: records of
                     \* id, storageLimit, storageUsed, isActive
    serviceAccounts, \* GoogleDriveService.serviceAccounts: loaded account ids
    usedAtStart,     \* history: storageUsed of each account id at the start
    putPc,           \* position of each uploadFile call
    putAcct,         \* the service account uploadFile selected
    putSize,         \* fs.stat(filePath).size of the file it uploads
    putRead,         \* accountInfo.storageUsed as read by storage.getAccount
    putErr,          \* the error uploadFile threw
    \* ---- metadata store ----
    uploads,         \* upload records, id = position: status, externalFileId
    conversions,     \* conversion records, id = position: uploadId,
                     \* resolution, status, progress
    chunks,          \* chunk records, id = position: uploadId, index,
                     \* resolution, externalFileId
    \* ---- conversion pipeline ----
    mockQueue,       \* which JobQueueService is deployed: the mock queue that
                     \* processes inside add(), or the BullMQ queue and worker
    queueJobs,       \* BullMQ jobs by jobId hls_<uploadId>_<resolution>
    runs,            \* invocations of processHlsConversion by the worker
    reqs,            \* POST /api/job/hls/create requests
    videoFiles,      \* ./temp/hls/<uploadId>_original.mp4, per upload: what
                     \* it holds and the run whose download wrote it
    \* ---- chunked upload ----
    scratch,         \* ./temp/uploads/upload_<uploadId>: the chunk files by name
    outFiles,        \* ./temp/uploads/<uploadId>_<file.name>, per upload
    drive,           \* the files stored on the drive, remote id = position
    submitted,       \* history: the chunk requests of each upload, in order
    completes,       \* POST /api/upload/complete requests, per upload
    \* ---- segment cache and downloads ----
    initialized,     \* GoogleDriveService.initialized
    inits,           \* GoogleDriveService.initialize calls
    blobAt,          \* the account whose drive holds each blob, 0 for none
    cache,           \* ./temp/cache: the file of each blob, who wrote it last
    clock,           \* Date.now(), in hours
    fetches,         \* getFileFromCacheOrDownload calls
    \* ---- progress of one engine run ----
    lastProgress,    \* let lastProgress of the run's convertToHls call
    percent,         \* the last percentage the engine reported
    callbacks,       \* 'progress' callbacks awaiting updateConversionProgress
    persisted        \* history: the progress values the store has written

poolVars == <<accounts, serviceAccounts, usedAtStart, putPc, putAcct, putSize,
              putRead, putErr>>

storeVars == <<uploads, conversions, chunks>>
convVars == <<mockQueue, queueJobs, runs, reqs, videoFiles>>

uploadVars == <<scratch, outFiles, drive, submitted, completes>>

fetchVars == <<initialized, inits, blobAt, cache, clock, fetches>>

progressVars == <<lastProgress, percent, callbacks, persisted>>

vars == <<poolVars, storeVars, convVars, uploadVars, fetchVars, progressVars>>

Puts == 1..NumPuts
AccountIds == 1..NumAccounts
FileSizes == 1..MaxFileSize

(***************************************************************************)
(* Helpers.                                                                *)
(***************************************************************************)
RECURSIVE SumOver(_, _)
SumOver(S, f) ==
    IF S = {} THEN 0
    ELSE LET x == CHOOSE y \in S : TRUE IN f[x] + SumOver(S \ {x}, f)

Range(s) == {s[i] : i \in 1..Len(s)}

(***************************************************************************)
(* The storage pool.                                                       *)
(***************************************************************************)
\* storage.getAccount(id)
GetAccount(accs, id) ==
    LET hits == {i \in 1..Len(accs) : accs[i].id = id}
    IN  IF hits = {} THEN [id |-> 0] ELSE accs[CHOOSE i \in hits : TRUE]

\* storage.updateAccountUsage(id, storageUsed): the stored value is replaced
UpdateAccountUsage(accs, id, used) ==
    [i \in 1..Len(accs) |->
        IF accs[i].id = id THEN [accs[i] EXCEPT !.storageUsed = used]
        ELSE accs[i]]

\* the selection loop of getOptimalServiceAccount: the first account, in
\* store order, whose free space is greater than every one before it
RECURSIVE OptimalFrom(_, _, _, _)
OptimalFrom(accs, i, optimal, maxFreeSpace) ==
    IF i > Len(accs) THEN optimal
    ELSE IF ~accs[i].isActive
         THEN OptimalFrom(accs, i + 1, optimal, maxFreeSpace)
         ELSE LET freeSpace == accs[i].storageLimit - accs[i].storageUsed
              IN  IF freeSpace > maxFreeSpace
                  THEN OptimalFrom(accs, i + 1, accs[i].id, freeSpace)
                  ELSE OptimalFrom(accs, i + 1, optimal, maxFreeSpace)

\* getOptimalServiceAccount: the id of the selected service account, or the
\* error it throws
GetOptimalServiceAccount(accs, loaded) ==
    IF Len(loaded) = 0 THEN [ok |-> FALSE, err |-> "NoServiceAccounts", id |-> 0]
    ELSE LET optimal == OptimalFrom(accs, 1, 0, -1)
         IN  IF optimal = 0
             THEN [ok |-> FALSE, err |-> "NoActiveAccountWithFreeSpace", id |-> 0]
             ELSE IF optimal \notin Range(loaded)
             THEN [ok |-> FALSE, err |-> "OptimalNotLoaded", id |-> 0]
             ELSE [ok |-> TRUE, err |-> "", id |-> optimal]

\* uploadFile, up to the return of getOptimalServiceAccount
PutSelect(p) ==
    /\ putPc[p] = "idle"
    /\ \E size \in FileSizes :
        LET sel == GetOptimalServiceAccount(accounts, serviceAccounts)
        IN  /\ putSize' = [putSize EXCEPT ![p] = size]
            /\ IF sel.ok
               THEN /\ putPc' = [putPc EXCEPT ![p] = "selected"]
                    /\ putAcct' = [putAcct EXCEPT ![p] = sel.id]
                    /\ UNCHANGED putErr
               ELSE /\ putPc' = [putPc EXCEPT ![p] = "failed"]
                    /\ putErr' = [putErr EXCEPT ![p] = sel.err]
                    /\ UNCHANGED putAcct
    /\ UNCHANGED <<accounts, serviceAccounts, usedAtStart, putRead>>
    /\ UNCHANGED <<storeVars, convVars, uploadVars, fetchVars, progressVars>>

\* drive.files.create and drive.permissions.create: the provider stores the
\* file, or the call throws and uploadFile rethrows
PutCreate(p) ==
    /\ putPc[p] = "selected"
    /\ \/ /\ putPc' = [putPc EXCEPT ![p] = "created"]
          /\ UNCHANGED putErr
       \/ /\ putPc' = [putPc EXCEPT ![p] = "failed"]
          /\ putErr' = [putErr EXCEPT ![p] = "ProviderError"]
    /\ UNCHANGED <<accounts, serviceAccounts, usedAtStart, putAcct, putSize, putRead>>
    /\ UNCHANGED <<storeVars, convVars, uploadVars, fetchVars, progressVars>>

\* fs.stat and storage.getAccount(serviceAccount.id)
PutGetAccount(p) ==
    /\ putPc[p] = "created"
    /\ putRead' = [putRead EXCEPT ![p] = GetAccount(accounts, putAcct[p]).storageUsed]
    /\ putPc' = [putPc EXCEPT ![p] = "read"]
    /\ UNCHANGED <<accounts, serviceAccounts, usedAtStart, putAcct, putSize, putErr>>
    /\ UNCHANGED <<storeVars, convVars, uploadVars, fetchVars, progressVars>>

\* the usage uploadFile stores: what it read plus the file's size
NewUsage(read, size) == read + size

\* storage.updateAccountUsage(serviceAccount.id, accountInfo.storageUsed + size)
PutUpdateUsage(p) ==
    /\ putPc[p] = "read"
    /\ accounts' = UpdateAccountUsage(accounts, putAcct[p],
                                      NewUsage(putRead[p], putSize[p]))
    /\ putPc' = [putPc EXCEPT ![p] = "done"]
    /\ UNCHANGED <<serviceAccounts, usedAtStart, putAcct, putSize, putRead, putErr>>
    /\ UNCHANGED <<storeVars, convVars, uploadVars, fetchVars, progressVars>>

(***************************************************************************)
(* The metadata store (MongoStorage).                                      *)
(***************************************************************************)
Resolutions == {"720p", "360p"}
Reqs == 1..NumReqs

\* storage.createConversion: status as given, progress 0
CreateConversion(convs, uploadId, resolution) ==
    Append(convs, [uploadId |-> uploadId, resolution |-> resolution,
                   status |-> "waiting", progress |-> 0])

\* storage.updateConversionStatus(id, status, progress)
UpdateConversionStatus(convs, id, status, progress) ==
    [convs EXCEPT ![id] = [@ EXCEPT !.status = status, !.progress = progress]]

\* storage.updateConversionError(id, error): status becomes failed
UpdateConversionError(convs, id) ==
    [convs EXCEPT ![id] = [@ EXCEPT !.status = "failed"]]

\* storage.updateUploadStatus(id, status)
UpdateUploadStatus(ups, id, status) ==
    [ups EXCEPT ![id] = [@ EXCEPT !.status = status]]

\* storage.getConversionsByUploadId(uploadId): ids, in store order
ConversionsByUploadId(convs, uploadId) ==
    SelectSeq([i \in 1..Len(convs) |-> i], LAMBDA i : convs[i].uploadId = uploadId)

\* existingConversions.find(c => c.resolution === resolution): the first
\* conversion of the upload with that resolution, 0 when there is none
FindConversion(convs, uploadId, resolution) ==
    LET hits == SelectSeq(ConversionsByUploadId(convs, uploadId),
                          LAMBDA i : convs[i].resolution = resolution)
    IN  IF hits = <<>> THEN 0 ELSE Head(hits)

\* storage.createChunk: the next chunk id is the next position
CreateChunk(chs, uploadId, index, resolution, externalFileId) ==
    Append(chs, [uploadId |-> uploadId, index |-> index,
                 resolution |-> resolution, externalFileId |-> externalFileId])

\* insertion of chunk id c into ids sorted by index; equal indices keep
\* their store order (a stable sort)
RECURSIVE InsertByIndex(_, _, _)
InsertByIndex(chs, sorted, c) ==
    IF sorted = <<>> THEN <<c>>
    ELSE IF chs[Head(sorted)].index <= chs[c].index
         THEN <<Head(sorted)>> \o InsertByIndex(chs, Tail(sorted), c)
         ELSE <<c>> \o sorted

RECURSIVE SortByIndex(_, _)
SortByIndex(chs, ids) ==
    IF ids = <<>> THEN <<>>
    ELSE InsertByIndex(chs, SortByIndex(chs, SubSeq(ids, 1, Len(ids) - 1)),
                       ids[Len(ids)])

\* storage.getChunksByUploadId(uploadId, resolution): the chunk ids of the
\* upload (of the resolution, unless it is "" for none), sorted by index
GetChunksByUploadId(chs, uploadId, resolution) ==
    SortByIndex(chs,
        SelectSeq([i \in 1..Len(chs) |-> i],
                  LAMBDA i : /\ chs[i].uploadId = uploadId
                             /\ (resolution = "" \/ chs[i].resolution = resolution)))

(***************************************************************************)
(* HlsConverter.generatePlaylist.                                          *)
(***************************************************************************)
\* the playlist generatePlaylist returns: NoSegments (it throws), or the
\* chunkId of each #EXTINF entry in order, closed by #EXT-X-ENDLIST
GeneratePlaylist(chs, uploadId, resolution) ==
    LET found == GetChunksByUploadId(chs, uploadId, resolution)
    IN  IF found = <<>>
        THEN [ok |-> FALSE, entries |-> <<>>, endlist |-> FALSE]
        ELSE LET useResolution ==
                     IF resolution # "" THEN resolution
                     ELSE chs[Head(found)].resolution
                 filtered ==
                     IF resolution # "" THEN found
                     ELSE SelectSeq(found,
                              LAMBDA c : chs[c].resolution = useResolution)
             IN  [ok |-> TRUE,
                  entries |-> [j \in 1..Len(filtered) |-> [chunkId |-> filtered[j]]],
                  endlist |-> TRUE]

(***************************************************************************)
(* HlsConverter.generateMasterPlaylist.                                    *)
(***************************************************************************)
\* Array.from(new Set(...)): each value once, in order of first occurrence
RECURSIVE Distinct(_)
Distinct(seq) ==
    IF seq = <<>> THEN <<>>
    ELSE LET front == Distinct(SubSeq(seq, 1, Len(seq) - 1))
             last == seq[Len(seq)]
         IN  IF last \in Range(front) THEN front ELSE Append(front, last)

\* the master playlist: for every resolution that has a chunk record of the
\* upload (and settings), a stream entry with the uri
\* /api/stream/playlist/<uploadId>?resolution=<resolution>
GenerateMasterPlaylist(chs, uploadId) ==
    LET found == GetChunksByUploadId(chs, uploadId, "")
        resolutions == Distinct([j \in 1..Len(found) |-> chs[found[j]].resolution])
    IN  [j \in 1..Len(resolutions) |->
            [uploadId |-> uploadId, resolution |-> resolutions[j]]]

(***************************************************************************)
(* GET /api/job/hls/getConversionJobs.                                     *)
(***************************************************************************)
\* the status field of the response
AggregateStatus(convs, uploadId) ==
    LET found == Range(ConversionsByUploadId(convs, uploadId))
    IN  IF found = {} THEN "none"
        ELSE IF \A c \in found : convs[c].status = "ready" THEN "ready"
        ELSE IF \E c \in found : convs[c].status = "processing"
             THEN "processing"
        ELSE "waiting"

(***************************************************************************)
(* The job queue (JobQueueService).                                        *)
(***************************************************************************)
\* jobId: `hls_${uploadId}_${resolution}`
JobId(uploadId, resolution) == <<uploadId, resolution>>
JobIds == (1..MaxUploads) \X Resolutions

\* conversionQueue.add under jobId hls_<uploadId>_<resolution>: BullMQ adds
\* the job unless a job with that id is still stored, whatever its state
QueueAdd(jobs, jobId, conversionId) ==
    IF jobs[jobId].state = "none"
    THEN [jobs EXCEPT ![jobId] = [state |-> "wait", conversionId |-> conversionId]]
    ELSE jobs

\* requests received plus worker invocations so far
HandlersStarted ==
    Cardinality({r \in Reqs : reqs[r].pc # "idle"}) + Len(runs)

ActiveRuns == {k \in 1..Len(runs) : runs[k].pc \notin {"done", "failed"}}

NewRun(jobId) ==
    [jobId |-> jobId, conversionId |-> queueJobs[jobId].conversionId,
     uploadId |-> conversions[queueJobs[jobId].conversionId].uploadId,
     resolution |-> jobId[2], pc |-> "start", segments |-> 0, i |-> 0,
     allReady |-> FALSE]

\* the worker takes a waiting job and calls processHlsConversion
Deliver(jobId) ==
    /\ ~mockQueue
    /\ queueJobs[jobId].state = "wait"
    /\ Cardinality(ActiveRuns) < WorkerConcurrency
    /\ Len(runs) < MaxRuns
    /\ HandlersStarted < MaxHandlers
    /\ queueJobs' = [queueJobs EXCEPT ![jobId].state = "active"]
    /\ runs' = Append(runs, NewRun(jobId))
    /\ UNCHANGED <<poolVars, storeVars, mockQueue, videoFiles, reqs, uploadVars, fetchVars, progressVars>>

\* at-least-once delivery: a job whose lock has expired (stalled) is handed
\* to the worker again while its first run is still going
Redeliver(jobId) ==
    /\ ~mockQueue
    /\ queueJobs[jobId].state = "active"
    /\ \E k \in ActiveRuns : runs[k].jobId = jobId
    /\ Cardinality(ActiveRuns) < WorkerConcurrency
    /\ Len(runs) < MaxRuns
    /\ HandlersStarted < MaxHandlers
    /\ runs' = Append(runs, NewRun(jobId))
    /\ UNCHANGED <<poolVars, storeVars, mockQueue, videoFiles, queueJobs, reqs, uploadVars, fetchVars, progressVars>>

(***************************************************************************)
(* processHlsConversion and HlsConverter.convertToHls, one run k.          *)
(***************************************************************************)
RunTo(k, pc) ==
    [runs EXCEPT ![k] = IF pc \in {"done", "failed", "catch", "catchOuter"}
                        THEN [@ EXCEPT !.pc = pc, !.segments = 0, !.i = 0,
                                       !.allReady = FALSE]
                        ELSE [@ EXCEPT !.pc = pc]]

\* processHlsConversion: getConversion, updateConversionStatus(processing, 0)
RunStart(k) ==
    /\ k \in DOMAIN runs
    /\ runs[k].pc = "start"
    /\ conversions' = UpdateConversionStatus(conversions, runs[k].conversionId,
                                             "processing", 0)
    /\ runs' = RunTo(k, "convert")
    /\ UNCHANGED <<poolVars, uploads, chunks, mockQueue, videoFiles, queueJobs, reqs, uploadVars, fetchVars, progressVars>>

\* videoPath, path.join(this.tempDir, `${uploadId}_original.mp4`): no file
NoVideoFile == [content |-> "absent", by |-> 0]

\* convertToHls: getConversion, getUpload, updateConversionStatus(processing, 0),
\* then mkdir, googleDriveService.downloadFile(externalFileId, videoPath) and
\* getVideoDuration: the source is downloaded to videoPath, or a call throws,
\* before the download or with a part of the file written
RunConvert(k) ==
    /\ k \in DOMAIN runs
    /\ runs[k].pc = "convert"
    /\ conversions' = UpdateConversionStatus(conversions, runs[k].conversionId,
                                             "processing", 0)
    /\ \/ /\ runs' = RunTo(k, "engine")
          /\ videoFiles' = [videoFiles EXCEPT ![runs[k].uploadId] =
                                [content |-> "full", by |-> k]]
       \/ /\ runs' = RunTo(k, "catch")
          /\ \/ UNCHANGED videoFiles
             \/ videoFiles' = [videoFiles EXCEPT ![runs[k].uploadId] =
                                   [content |-> "partial", by |-> k]]
    /\ UNCHANGED <<poolVars, uploads, chunks, mockQueue, queueJobs, reqs, uploadVars, fetchVars, progressVars>>

\* the segment files the engine cuts a video into: the same video at the
\* same settings gives the same files
SegmentsOf(uploadId) == NumSegments

\* the engine's 'end' event: readdir lists the segments it produced
RunEngineEnd(k) ==
    /\ k \in DOMAIN runs
    /\ runs[k].pc = "engine"
    /\ runs' = [runs EXCEPT ![k].pc = "upload",
                            ![k].segments = SegmentsOf(runs[k].uploadId),
                            ![k].i = 0]
    /\ UNCHANGED <<poolVars, storeVars, mockQueue, videoFiles, queueJobs, reqs, uploadVars, fetchVars, progressVars>>

\* the engine's 'error' event: updateConversionError, then reject; the
\* handler has no try, so when updateConversionError throws, reject is never
\* called and the promise convertToHls awaits stays pending
RunEngineError(k) ==
    /\ k \in DOMAIN runs
    /\ runs[k].pc = "engine"
    /\ \/ /\ conversions' = UpdateConversionError(conversions,
                                                  runs[k].conversionId)
          /\ runs' = RunTo(k, "catch")
       \/ /\ UNCHANGED conversions
          /\ runs' = RunTo(k, "pending")
    /\ UNCHANGED <<poolVars, uploads, chunks, mockQueue, videoFiles, queueJobs, reqs, uploadVars, fetchVars, progressVars>>

\* the index createChunk is given for the i-th segment of the run
SegmentIndex(i) == i

\* one turn of the segment loop: uploadFile, then createChunk with index i;
\* either call may throw, which rejects
RunUploadSegment(k) ==
    /\ k \in DOMAIN runs
    /\ runs[k].pc = "upload"
    /\ runs[k].i < runs[k].segments
    /\ \/ /\ chunks' = CreateChunk(chunks, runs[k].uploadId,
                                   SegmentIndex(runs[k].i), runs[k].resolution,
                                   <<"drive", k, runs[k].i>>)
          /\ runs' = [runs EXCEPT ![k].i = @ + 1]
       \/ /\ runs' = RunTo(k, "catch")
          /\ UNCHANGED chunks
    /\ UNCHANGED <<poolVars, uploads, conversions, mockQueue, videoFiles, queueJobs, reqs, uploadVars, fetchVars, progressVars>>

\* after the loop: the playlist file is rewritten (readFile,
\* getChunksByUploadId, writeFile), then updateConversionStatus(ready, 100);
\* a throw before it rejects
RunMarkReady(k) ==
    /\ k \in DOMAIN runs
    /\ runs[k].pc = "upload"
    /\ runs[k].i = runs[k].segments
    /\ \/ /\ conversions' = UpdateConversionStatus(conversions,
                                runs[k].conversionId, "ready", 100)
          /\ runs' = RunTo(k, "checkAll")
       \/ /\ runs' = RunTo(k, "catch")
          /\ UNCHANGED conversions
    /\ UNCHANGED <<poolVars, uploads, chunks, mockQueue, videoFiles, queueJobs, reqs, uploadVars, fetchVars, progressVars>>

\* conversions.every(conv => conv.status === 'ready' || conv.status === 'failed')
AllReady(convs, uploadId) ==
    \A i \in Range(ConversionsByUploadId(convs, uploadId)) :
        convs[i].status \in {"ready", "failed"}

\* getConversionsByUploadId and the allReady test; the read may throw
RunCheckAll(k) ==
    /\ k \in DOMAIN runs
    /\ runs[k].pc = "checkAll"
    /\ \/ runs' = [runs EXCEPT ![k].pc = "setUpload",
                               ![k].allReady = AllReady(conversions, runs[k].uploadId)]
       \/ runs' = RunTo(k, "catch")
    /\ UNCHANGED <<poolVars, storeVars, mockQueue, videoFiles, queueJobs, reqs, uploadVars, fetchVars, progressVars>>

\* if (allReady) updateUploadStatus(uploadId, 'ready'); fs.rm(videoPath);
\* resolve: processHlsConversion returns and the queue job is completed
RunFinish(k) ==
    /\ k \in DOMAIN runs
    /\ runs[k].pc = "setUpload"
    /\ uploads' = IF runs[k].allReady
                  THEN UpdateUploadStatus(uploads, runs[k].uploadId, "ready")
                  ELSE uploads
    /\ videoFiles' = [videoFiles EXCEPT ![runs[k].uploadId] = NoVideoFile]
    /\ runs' = RunTo(k, "done")
    /\ queueJobs' = [queueJobs EXCEPT ![runs[k].jobId].state = "completed"]
    /\ UNCHANGED <<poolVars, conversions, chunks, mockQueue, reqs, uploadVars, fetchVars, progressVars>>

\* convertToHls's catch: updateConversionError, rethrow
RunCatch(k) ==
    /\ k \in DOMAIN runs
    /\ runs[k].pc = "catch"
    /\ conversions' = UpdateConversionError(conversions, runs[k].conversionId)
    /\ runs' = RunTo(k, "catchOuter")
    /\ UNCHANGED <<poolVars, uploads, chunks, mockQueue, videoFiles, queueJobs, reqs, uploadVars, fetchVars, progressVars>>

\* processHlsConversion's catch: updateConversionError, rethrow; the queue
\* job is failed
RunCatchOuter(k) ==
    /\ k \in DOMAIN runs
    /\ runs[k].pc = "catchOuter"
    /\ conversions' = UpdateConversionError(conversions, runs[k].conversionId)
    /\ runs' = RunTo(k, "failed")
    /\ queueJobs' = [queueJobs EXCEPT ![runs[k].jobId].state = "failed"]
    /\ UNCHANGED <<poolVars, uploads, chunks, mockQueue, videoFiles, reqs, uploadVars, fetchVars, progressVars>>

(***************************************************************************)
(* POST /api/job/hls/create, one request r.                                *)
(***************************************************************************)
ResolutionLists ==
    UNION {[1..n -> Resolutions] : n \in 1..MaxResolutionsPerRequest}

\* a request not yet received
IdleReq == [pc |-> "idle", uploadId |-> 0, resolutions |-> <<>>, idx |-> 0,
            uploadStatus |-> "", conversionId |-> 0, jobs |-> <<>>]

\* jobs.push({ conversionId, resolution, status, message })
JobsPush(rec, conversionId, status) ==
    [rec EXCEPT !.jobs = Append(@, [conversionId |-> conversionId,
                                    status |-> status])]

ReqAdvance(r, rec) ==
    IF rec.idx >= Len(rec.resolutions)
    THEN [reqs EXCEPT ![r] = [rec EXCEPT !.pc = "finish"]]
    ELSE [reqs EXCEPT ![r] = [rec EXCEPT !.pc = "check", !.idx = @ + 1]]

\* validation and storage.getUpload(uploadId)
ReqStart(r) ==
    /\ reqs[r].pc = "idle"
    /\ \A q \in 1..(r - 1) : reqs[q].pc # "idle"
    /\ HandlersStarted < MaxHandlers
    /\ \E u \in 1..Len(uploads), rs \in ResolutionLists :
        reqs' = [reqs EXCEPT ![r] = [pc |-> "check", uploadId |-> u,
                    resolutions |-> rs, idx |-> 1,
                    uploadStatus |-> uploads[u].status, conversionId |-> 0,
                    jobs |-> <<>>]]
    /\ UNCHANGED <<poolVars, storeVars, mockQueue, videoFiles, queueJobs, runs, uploadVars, fetchVars, progressVars>>

\* the branch the loop takes on what it found for the resolution
ExistingBranch(convs, existing) ==
    IF existing = 0 THEN "create"
    ELSE IF convs[existing].status = "ready" THEN "ready"
    ELSE IF convs[existing].status = "failed" THEN "retry"
    ELSE "active"

\* top of the loop: getConversionsByUploadId and find
ReqCheck(r) ==
    /\ reqs[r].pc = "check"
    /\ LET rec == reqs[r]
           resolution == rec.resolutions[rec.idx]
           existing == FindConversion(conversions, rec.uploadId, resolution)
           branch == ExistingBranch(conversions, existing)
       IN  IF branch \in {"create", "retry"}
           THEN reqs' = [reqs EXCEPT ![r] =
                            [rec EXCEPT !.pc = branch, !.conversionId = existing]]
           ELSE reqs' = ReqAdvance(r,
                            JobsPush(rec, existing, conversions[existing].status))
    /\ UNCHANGED <<poolVars, storeVars, mockQueue, videoFiles, queueJobs, runs, uploadVars, fetchVars, progressVars>>

\* the failed branch: updateConversionStatus(existing.id, 'waiting', 0)
ReqRetry(r) ==
    /\ reqs[r].pc = "retry"
    /\ conversions' = UpdateConversionStatus(conversions, reqs[r].conversionId,
                                             "waiting", 0)
    /\ reqs' = [reqs EXCEPT ![r] =
                    [JobsPush(@, reqs[r].conversionId, "waiting")
                        EXCEPT !.pc = "enqueue"]]
    /\ UNCHANGED <<poolVars, uploads, chunks, mockQueue, videoFiles, queueJobs, runs, uploadVars, fetchVars, progressVars>>

\* no conversion found: storage.createConversion
ReqCreate(r) ==
    /\ reqs[r].pc = "create"
    /\ conversions' = CreateConversion(conversions, reqs[r].uploadId,
                                       reqs[r].resolutions[reqs[r].idx])
    /\ reqs' = [reqs EXCEPT ![r] =
                    [JobsPush(@, Len(conversions) + 1, "waiting")
                        EXCEPT !.pc = "enqueue",
                               !.conversionId = Len(conversions) + 1]]
    /\ UNCHANGED <<poolVars, uploads, chunks, mockQueue, videoFiles, queueJobs, runs, uploadVars, fetchVars, progressVars>>

\* jobQueue.addHlsConversionJob: the BullMQ queue stores the job; the mock
\* queue's add() sets the conversion ready at once
ReqEnqueue(r) ==
    /\ reqs[r].pc = "enqueue"
    /\ IF mockQueue
       THEN /\ conversions' = UpdateConversionStatus(conversions,
                                  reqs[r].conversionId, "ready", 100)
            /\ UNCHANGED queueJobs
       ELSE /\ queueJobs' = QueueAdd(queueJobs,
                                JobId(reqs[r].uploadId,
                                      reqs[r].resolutions[reqs[r].idx]),
                                reqs[r].conversionId)
            /\ UNCHANGED conversions
    /\ reqs' = ReqAdvance(r, reqs[r])
    /\ UNCHANGED <<poolVars, uploads, chunks, mockQueue, videoFiles, runs, uploadVars, fetchVars, progressVars>>

\* after the loop: the upload is set to processing unless the record read
\* at the start of the request already was
ReqFinish(r) ==
    /\ reqs[r].pc = "finish"
    /\ uploads' = IF reqs[r].uploadStatus # "processing"
                  THEN UpdateUploadStatus(uploads, reqs[r].uploadId, "processing")
                  ELSE uploads
    /\ reqs' = [reqs EXCEPT ![r] = [IdleReq EXCEPT !.pc = "done"]]
    /\ UNCHANGED <<poolVars, conversions, chunks, mockQueue, videoFiles, queueJobs, runs, uploadVars, fetchVars, progressVars>>

(***************************************************************************)
(* The chunked upload assembler (Chunker) and the /api/upload routes.      *)
(***************************************************************************)
UploadIds == 1..MaxUploads
ChunkIndices == 0..MaxChunkIndex
\* the bytes a chunk request may carry
ChunkPayloads == {<<"a">>, <<"b", "c">>}

\* externalFileId: 'pending' at init, later the id the drive returned
Pending == <<"pending">>

\* i.toString(): the decimal digits of i
RECURSIVE ToDigits(_)
ToDigits(i) == IF i < 10 THEN <<i>> ELSE Append(ToDigits(i \div 10), i % 10)

\* s.padStart(width, '0')
RECURSIVE PadStart(_, _)
PadStart(s, width) == IF Len(s) >= width THEN s ELSE PadStart(<<0>> \o s, width)

\* `chunk_${index.toString().padStart(5, '0')}`: the digits after chunk_
ChunkName(i) == PadStart(ToDigits(i), ChunkNamePad)

\* string comparison of two names, as Array.prototype.sort() compares
RECURSIVE LexLess(_, _)
LexLess(a, b) ==
    IF b = <<>> THEN FALSE
    ELSE IF a = <<>> THEN TRUE
    ELSE IF Head(a) # Head(b) THEN Head(a) < Head(b)
    ELSE LexLess(Tail(a), Tail(b))

RECURSIVE InsertName(_, _)
InsertName(sorted, n) ==
    IF sorted = <<>> THEN <<n>>
    ELSE IF LexLess(n, Head(sorted)) THEN <<n>> \o sorted
    ELSE <<Head(sorted)>> \o InsertName(Tail(sorted), n)

\* [...chunkPaths].sort()
RECURSIVE SortNames(_)
SortNames(names) ==
    IF names = <<>> THEN <<>>
    ELSE InsertName(SortNames(Tail(names)), Head(names))

NoDir == [exists |-> FALSE, files |-> <<>>]
EmptyDir == [exists |-> TRUE, files |-> <<>>]
NoFile == [exists |-> FALSE, bytes |-> <<>>]

\* a rename that leaves a file already there in place
RenameKeepFirst(files, name, bytes) ==
    [n \in DOMAIN files \cup {name} |->
        IF n \in DOMAIN files THEN files[n] ELSE bytes]

\* fs.rename(chunkFile.path, chunkPath): the file of that name is replaced
Rename(files, name, bytes) ==
    [n \in DOMAIN files \cup {name} |-> IF n = name THEN bytes ELSE files[n]]

\* handleUploadedChunk: mkdir -p the chunk directory, move the chunk into it
HandleUploadedChunk(dir, index, bytes) ==
    [exists |-> TRUE,
     files |-> Rename(IF dir.exists THEN dir.files ELSE <<>>,
                      ChunkName(index), bytes)]

\* combineUploadedChunks: the chunk paths it asks mergeChunks to merge
ChunkPaths(totalChunks) ==
    [j \in 1..totalChunks |-> ChunkName(j - 1)]

\* mergeChunks: the chunks are piped into the output file in sorted order;
\* a chunk that cannot be read rejects, leaving what was written before it
RECURSIVE MergeFrom(_, _, _)
MergeFrom(dir, sorted, written) ==
    IF sorted = <<>> THEN [ok |-> TRUE, bytes |-> written]
    ELSE IF ~dir.exists \/ Head(sorted) \notin DOMAIN dir.files
         THEN [ok |-> FALSE, bytes |-> written]
         ELSE MergeFrom(dir, Tail(sorted), written \o dir.files[Head(sorted)])

\* a merge that passes over the chunks it cannot read
MergeChunksPresent(dir, chunkPaths) ==
    MergeFrom(dir,
              SelectSeq(SortNames(chunkPaths),
                        LAMBDA n : dir.exists /\ n \in DOMAIN dir.files),
              <<>>)

MergeChunks(dir, chunkPaths) == MergeFrom(dir, SortNames(chunkPaths), <<>>)

\* POST /api/upload/init: createUpload (externalFileId 'pending', status
\* processing) and mkdir of the upload directory
UploadInit ==
    /\ Len(uploads) < MaxUploads
    /\ uploads' = Append(uploads, [status |-> "processing",
                                   externalFileId |-> Pending])
    /\ scratch' = [scratch EXCEPT ![Len(uploads) + 1] = EmptyDir]
    /\ UNCHANGED <<poolVars, conversions, chunks, convVars, outFiles, drive,
                   submitted, completes, fetchVars, progressVars>>

SubmitsSoFar == SumOver(UploadIds, [u \in UploadIds |-> Len(submitted[u])])

\* POST /api/upload/chunk: chunker.handleUploadedChunk
AcceptChunk(u) ==
    /\ u \in DOMAIN uploads
    /\ SubmitsSoFar < MaxSubmits
    /\ \E i \in ChunkIndices, b \in ChunkPayloads :
        /\ scratch' = [scratch EXCEPT ![u] = HandleUploadedChunk(@, i, b)]
        /\ submitted' = [submitted EXCEPT ![u] = Append(@, <<i, b>>)]
    /\ UNCHANGED <<poolVars, storeVars, convVars, outFiles, drive, completes, fetchVars, progressVars>>

CompleteTo(u, pc) == [completes EXCEPT ![u].pc = pc]

\* the catch block: 500 'Upload completion failed'
CompleteFail(u, err) == [completes EXCEPT ![u].pc = "failed", ![u].err = err]

\* POST /api/upload/complete: getUpload, getFile, fs.readdir(uploadDir) and
\* totalChunks = files.length; readdir of a missing directory throws
CompleteReaddir(u) ==
    /\ u \in DOMAIN uploads
    /\ completes[u].pc = "idle"
    /\ IF scratch[u].exists
       THEN completes' = [completes EXCEPT ![u] =
                [@ EXCEPT !.pc = "counted",
                          !.totalChunks = Cardinality(DOMAIN scratch[u].files),
                          !.seen = Len(submitted[u])]]
       ELSE completes' = [completes EXCEPT ![u] =
                [@ EXCEPT !.pc = "failed", !.err = "readdir",
                          !.seen = Len(submitted[u])]]
    /\ UNCHANGED <<poolVars, storeVars, convVars, scratch, outFiles, drive,
                   submitted, fetchVars, progressVars>>

\* chunker.combineUploadedChunks: merge chunks 0..totalChunks-1 into the
\* output file, then fs.rm the chunk directory; a failed merge throws
CompleteCombine(u) ==
    /\ completes[u].pc = "counted"
    /\ LET merged == MergeChunks(scratch[u],
                                 ChunkPaths(completes[u].totalChunks))
       IN  /\ outFiles' = [outFiles EXCEPT ![u] =
                               [exists |-> TRUE, bytes |-> merged.bytes]]
           /\ IF merged.ok
              THEN /\ scratch' = [scratch EXCEPT ![u] = NoDir]
                   /\ completes' = CompleteTo(u, "combined")
              ELSE /\ UNCHANGED scratch
                   /\ completes' = CompleteFail(u, "combine")
    /\ UNCHANGED <<poolVars, storeVars, convVars, drive, submitted, fetchVars, progressVars>>

\* the accounts after uploadFile has stored a file of these bytes on account id
UsageAfterUpload(accs, id, bytes) ==
    UpdateAccountUsage(accs, id,
                       NewUsage(GetAccount(accs, id).storageUsed, Len(bytes)))

\* an uploadFile that counts the file before permissions.create has answered
UploadFileCountingFirst(accs, loaded, drv, bytes) ==
    LET sel == GetOptimalServiceAccount(accs, loaded)
    IN  IF ~sel.ok
        THEN {[ok |-> FALSE, accounts |-> accs, drive |-> drv]}
        ELSE {[ok |-> FALSE, accounts |-> accs, drive |-> drv],
              [ok |-> FALSE, accounts |-> UsageAfterUpload(accs, sel.id, bytes),
               drive |-> Append(drv, bytes)],
              [ok |-> TRUE, accounts |-> UsageAfterUpload(accs, sel.id, bytes),
               drive |-> Append(drv, bytes)]}

\* googleDriveService.uploadFile run to its end: what it leaves of the
\* accounts and the drive, and whether it returned.  It throws when
\* getOptimalServiceAccount or files.create throws (nothing stored), or when
\* permissions.create, fs.stat, getAccount or updateAccountUsage throws (the
\* file is on the drive, the usage not yet written); else it returns the id
UploadFile(accs, loaded, drv, bytes) ==
    LET sel == GetOptimalServiceAccount(accs, loaded)
    IN  IF ~sel.ok
        THEN {[ok |-> FALSE, accounts |-> accs, drive |-> drv]}
        ELSE {[ok |-> FALSE, accounts |-> accs, drive |-> drv],
              [ok |-> FALSE, accounts |-> accs, drive |-> Append(drv, bytes)],
              [ok |-> TRUE, accounts |-> UsageAfterUpload(accs, sel.id, bytes),
               drive |-> Append(drv, bytes)]}

\* googleDriveService.uploadFile(outputFilePath) in the complete route: the
\* id the drive gave the file is kept, or the throw reaches the catch block
CompletePut(u) ==
    /\ completes[u].pc = "combined"
    /\ outFiles[u].exists
    /\ \E o \in UploadFile(accounts, serviceAccounts, drive, outFiles[u].bytes) :
        /\ accounts' = o.accounts
        /\ drive' = o.drive
        /\ completes' = IF o.ok
                        THEN [completes EXCEPT ![u] =
                                 [@ EXCEPT !.pc = "stored",
                                           !.externalFileId =
                                               <<"drive", Len(o.drive)>>]]
                        ELSE CompleteFail(u, "put")
    /\ UNCHANGED <<serviceAccounts, usedAtStart, putPc, putAcct, putSize,
                   putRead, putErr, storeVars, convVars, scratch, outFiles,
                   submitted, fetchVars, progressVars>>

\* the documents UploadModel.updateOne({ uploadId: n }, ...) may update:
\* uploadSchema has no uploadId path, so the filter is either cast away,
\* leaving {} (the first document matches), or kept (no document matches)
UpdateOneTargets(ups, uploadId) ==
    {0} \cup (IF ups = <<>> THEN {} ELSE {1})

\* UploadModel.updateOne(..., { externalFileId, status: 'ready' })
CompleteUpdate(u) ==
    /\ completes[u].pc = "stored"
    /\ \E t \in UpdateOneTargets(uploads, u) :
        uploads' = IF t = 0 THEN uploads
                   ELSE [uploads EXCEPT ![t] =
                            [status |-> "ready",
                             externalFileId |-> completes[u].externalFileId]]
    /\ completes' = CompleteTo(u, "updated")
    /\ UNCHANGED <<poolVars, conversions, chunks, convVars, scratch, outFiles,
                   drive, submitted, fetchVars, progressVars>>

\* fs.unlink(outputFilePath), fs.rm(uploadDir), the 200 response
CompleteCleanup(u) ==
    /\ completes[u].pc = "updated"
    /\ outFiles' = [outFiles EXCEPT ![u] = NoFile]
    /\ scratch' = [scratch EXCEPT ![u] = NoDir]
    /\ completes' = CompleteTo(u, "succeeded")
    /\ UNCHANGED <<poolVars, storeVars, convVars, drive, submitted, fetchVars, progressVars>>

\* a completion request not yet received
IdleComplete == [pc |-> "idle", totalChunks |-> 0, externalFileId |-> Pending,
                 err |-> "", seen |-> 0]

(***************************************************************************)
(* GoogleDriveService.initialize / loadServiceAccount / downloadFile and   *)
(* FileProcessor.getFileFromCacheOrDownload.                               *)
(***************************************************************************)
Inits == 1..NumInits
Fetches == 1..NumFetches
BlobIds == 1..NumBlobs
\* the hours that may pass between two steps
ClockSteps == {20, 168}
\* what the provider may answer to files.get
ProviderResponses == {"ok", "notFound", "rateLimited", "error"}

\* time passes
Tick ==
    /\ \E d \in ClockSteps :
        /\ clock + d <= MaxClockHours
        /\ clock' = clock + d
    /\ UNCHANGED <<poolVars, storeVars, convVars, uploadVars, progressVars, initialized,
                   inits, blobAt, cache, fetches>>

\* an initialize call not yet made
IdleInit == [pc |-> "idle", accounts |-> <<>>, k |-> 0]

\* initialize: if (this.initialized) return; accounts = storage.getAccounts()
InitGetAccounts(n) ==
    /\ inits[n].pc = "idle"
    /\ IF initialized \/ Len(accounts) = 0
       THEN inits' = [inits EXCEPT ![n].pc = "returned"]
       ELSE inits' = [inits EXCEPT ![n] =
                [pc |-> "loading",
                 accounts |-> [i \in DOMAIN accounts |-> accounts[i].id],
                 k |-> 1]]
    /\ UNCHANGED <<poolVars, storeVars, convVars, uploadVars, progressVars, initialized,
                   blobAt, cache, clock, fetches>>

\* one turn of initialize's loop, loadServiceAccount(account): the
\* credentials are read and the account pushed, or the read throws and the
\* account is passed over; after the last turn initialized is set
InitLoadServiceAccount(n) ==
    /\ inits[n].pc = "loading"
    /\ \/ serviceAccounts' = Append(serviceAccounts,
                                    inits[n].accounts[inits[n].k])
       \/ UNCHANGED serviceAccounts
    /\ IF inits[n].k < Len(inits[n].accounts)
       THEN /\ inits' = [inits EXCEPT ![n].k = @ + 1]
            /\ UNCHANGED initialized
       ELSE /\ inits' = [inits EXCEPT ![n] = [IdleInit EXCEPT !.pc = "returned"]]
            /\ initialized' = TRUE
    /\ UNCHANGED <<accounts, usedAtStart, putPc, putAcct, putSize, putRead,
                   putErr, storeVars, convVars, uploadVars, progressVars, blobAt, cache,
                   clock, fetches>>

\* a cache file: what has been written of it, by which call, and its mtime
NoCacheFile == [content |-> "absent", by |-> 0, mtime |-> 0]

\* a getFileFromCacheOrDownload call not yet made
IdleFetch == [pc |-> "idle", blob |-> 0, k |-> 0, probed |-> <<>>,
              response |-> "", result |-> "", served |-> ""]

\* fileAge < maxCacheTime
CacheFresh(file, now) == now - file.mtime < MaxCacheTimeHours

\* the call returns cacheFilePath: what the file holds at that moment
FetchReturn(rec, result, file) ==
    [rec EXCEPT !.pc = "returned", !.result = result, !.served = file.content]

\* the call throws
FetchThrow(rec, response) ==
    [rec EXCEPT !.pc = "failed", !.response = response]

\* getFileFromCacheOrDownload: fileExistsInCache, fs.stat and the age test;
\* a cached file is returned, else downloadFile is called
FetchCheck(f) ==
    /\ fetches[f].pc = "idle"
    /\ \E b \in BlobIds :
        LET rec == [fetches[f] EXCEPT !.blob = b]
        IN  IF cache[b].content # "absent" /\ CacheFresh(cache[b], clock)
            THEN fetches' = [fetches EXCEPT ![f] =
                                FetchReturn(rec, "cached", cache[b])]
            ELSE fetches' = [fetches EXCEPT ![f] =
                                [rec EXCEPT !.pc = "probe", !.k = 1]]
    /\ UNCHANGED <<poolVars, storeVars, convVars, uploadVars, progressVars, initialized,
                   inits, blobAt, cache, clock>>

\* what account acct may answer to files.get for the blob
ResponsesOf(acct, b) ==
    IF blobAt[b] = acct THEN ProviderResponses \ {"notFound"}
    ELSE ProviderResponses \ {"ok"}

\* downloadFile, one turn of its loop over this.serviceAccounts:
\* createWriteStream(destination) opens the cache file for writing, then
\* drive.files.get answers; 404 goes on to the next account, any other
\* error is thrown; past the last account 'File not found' is thrown
FetchProbe(f) ==
    /\ fetches[f].pc = "probe"
    /\ initialized
    /\ LET rec == fetches[f]
           b == rec.blob
       IN  IF rec.k > Len(serviceAccounts)
           THEN /\ fetches' = [fetches EXCEPT ![f] = FetchThrow(rec, "notFound")]
                /\ UNCHANGED cache
           ELSE /\ cache' = [cache EXCEPT ![b] =
                       [content |-> "empty", by |-> f, mtime |-> clock]]
                /\ \E resp \in ResponsesOf(serviceAccounts[rec.k], b) :
                    LET seen == [rec EXCEPT
                                    !.probed = Append(@, serviceAccounts[rec.k]),
                                    !.response = resp]
                    IN  fetches' = [fetches EXCEPT ![f] =
                            CASE resp = "ok" -> [seen EXCEPT !.pc = "stream"]
                              [] resp = "notFound" -> [seen EXCEPT !.k = @ + 1]
                              [] OTHER -> FetchThrow(seen, resp)]
    /\ UNCHANGED <<poolVars, storeVars, convVars, uploadVars, progressVars, initialized,
                   inits, blobAt, clock>>

\* what a write of call f leaves of the file: its own stream's data, or a
\* mix when another call has opened the file since
Written(file, f, content, now) ==
    [content |-> IF file.by = f THEN content ELSE "mixed",
     by |-> file.by, mtime |-> now]

\* response.data is piped into the file: a first part arrives, or the
\* stream errors and the call rejects
FetchStreamData(f) ==
    /\ fetches[f].pc = "stream"
    /\ cache[fetches[f].blob].content \in {"empty", "mixed"}
    /\ \/ /\ cache' = [cache EXCEPT ![fetches[f].blob] =
                          Written(@, f, "partial", clock)]
          /\ UNCHANGED fetches
       \/ /\ fetches' = [fetches EXCEPT ![f] = FetchThrow(@, "error")]
          /\ UNCHANGED cache
    /\ UNCHANGED <<poolVars, storeVars, convVars, uploadVars, progressVars, initialized,
                   inits, blobAt, clock>>

\* the stream's 'end': the rest is written, downloadFile resolves and
\* getFileFromCacheOrDownload returns cacheFilePath
FetchStreamEnd(f) ==
    /\ fetches[f].pc = "stream"
    /\ cache[fetches[f].blob].content \in {"partial", "mixed"}
    /\ LET file == Written(cache[fetches[f].blob], f, "full", clock)
       IN  /\ cache' = [cache EXCEPT ![fetches[f].blob] = file]
           /\ fetches' = [fetches EXCEPT ![f] =
                             FetchReturn(@, "downloaded", file)]
    /\ UNCHANGED <<poolVars, storeVars, convVars, uploadVars, progressVars, initialized,
                   inits, blobAt, clock>>

(***************************************************************************)
(* The engine's 'progress' handler of one convertToHls call.               *)
(***************************************************************************)
Percents == 1..MaxPercent

\* the 'progress' event with Math.round(progress.percent) = v: the test
\* currentProgress >= lastProgress + 5, and on success the call of
\* updateConversionProgress, which the callback then awaits
ProgressEvent(v) ==
    /\ v > percent
    /\ percent' = v
    /\ IF v >= lastProgress + ProgressStep
       THEN /\ Len(callbacks) < MaxCallbacks
            /\ callbacks' = Append(callbacks, [value |-> v, pc |-> "sent"])
       ELSE UNCHANGED callbacks
    /\ UNCHANGED <<poolVars, storeVars, convVars, uploadVars, fetchVars,
                   lastProgress, persisted>>

\* updateConversionProgress: findOneAndUpdate sets the conversion's progress
ProgressWrite(c) ==
    /\ c \in DOMAIN callbacks
    /\ callbacks[c].pc = "sent"
    /\ persisted' = Append(persisted, callbacks[c].value)
    /\ callbacks' = [callbacks EXCEPT ![c].pc = "written"]
    /\ UNCHANGED <<poolVars, storeVars, convVars, uploadVars, fetchVars,
                   lastProgress, percent>>

\* the await returns: lastProgress = currentProgress
ProgressResume(c) ==
    /\ c \in DOMAIN callbacks
    /\ callbacks[c].pc = "written"
    /\ lastProgress' = callbacks[c].value
    /\ callbacks' = [j \in 1..(Len(callbacks) - 1) |->
                        IF j < c THEN callbacks[j] ELSE callbacks[j + 1]]
    /\ UNCHANGED <<poolVars, storeVars, convVars, uploadVars, fetchVars,
                   percent, persisted>>

(***************************************************************************)
(* Initial states and specifications.                                      *)
(***************************************************************************)
\* the account records the pool starts from
AccountShapes(id) ==
    {[id |-> id, storageLimit |-> l, storageUsed |-> u, isActive |-> a] :
        l \in {10, 100}, u \in {0, 5, 10, 60, 92}, a \in BOOLEAN}

\* no uploadFile call started
IdlePuts ==
    /\ serviceAccounts = [i \in AccountIds |-> i]
    /\ usedAtStart = [i \in AccountIds |-> GetAccount(accounts, i).storageUsed]
    /\ putPc = [p \in Puts |-> "idle"]
    /\ putAcct = [p \in Puts |-> 0]
    /\ putSize = [p \in Puts |-> 0]
    /\ putRead = [p \in Puts |-> 0]
    /\ putErr = [p \in Puts |-> ""]

\* a pool of empty, active accounts
FreshPool ==
    /\ accounts = [i \in AccountIds |->
                      [id |-> i, storageLimit |-> 100, storageUsed |-> 0,
                       isActive |-> TRUE]]
    /\ IdlePuts

\* a pool whose accounts have all been deactivated
NoActivePool ==
    /\ accounts = [i \in AccountIds |->
                      [id |-> i, storageLimit |-> 100, storageUsed |-> 0,
                       isActive |-> FALSE]]
    /\ IdlePuts

\* an empty metadata store
EmptyStore ==
    /\ uploads = <<>>
    /\ conversions = <<>>
    /\ chunks = <<>>

\* no conversion requested
IdleConv ==
    /\ mockQueue = FALSE
    /\ queueJobs = [j \in JobIds |-> [state |-> "none", conversionId |-> 0]]
    /\ runs = <<>>
    /\ reqs = [r \in Reqs |-> IdleReq]
    /\ videoFiles = [u \in 1..MaxUploads |-> NoVideoFile]

\* let lastProgress = 0; no progress event yet
IdleProgress ==
    /\ lastProgress = 0
    /\ percent = 0
    /\ callbacks = <<>>
    /\ persisted = <<>>

\* no upload started
IdleUpload ==
    /\ scratch = [u \in UploadIds |-> NoDir]
    /\ outFiles = [u \in UploadIds |-> NoFile]
    /\ drive = <<>>
    /\ submitted = [u \in UploadIds |-> <<>>]
    /\ completes = [u \in UploadIds |-> IdleComplete]

\* the drive service loaded, nothing fetched
IdleFetches ==
    /\ initialized = TRUE
    /\ inits = [n \in Inits |-> IdleInit]
    /\ blobAt = [b \in BlobIds |-> 0]
    /\ cache = [b \in BlobIds |-> NoCacheFile]
    /\ clock = 0
    /\ fetches = [f \in Fetches |-> IdleFetch]

\* getAccounts is find() without a sort: the accounts come in any order
InitPool ==
    /\ accounts \in {s \in [AccountIds -> UNION {AccountShapes(i) : i \in AccountIds}] :
                        /\ {s[i].id : i \in AccountIds} = AccountIds
                        /\ \A i \in AccountIds : s[i].storageUsed <= s[i].storageLimit}
    /\ IdlePuts
    /\ EmptyStore
    /\ IdleConv
    /\ IdleProgress
    /\ IdleUpload
    /\ IdleFetches

NextPool ==
    \E p \in Puts :
        \/ PutSelect(p)
        \/ PutCreate(p)
        \/ PutGetAccount(p)
        \/ PutUpdateUsage(p)

SpecPool == InitPool /\ [][NextPool]_vars

\* one uploaded video, ready; no conversion of it yet; either queue service
InitConv ==
    /\ FreshPool
    /\ uploads = <<[status |-> "ready", externalFileId |-> <<"drive", 0>>]>>
    /\ conversions = <<>>
    /\ chunks = <<>>
    /\ mockQueue \in BOOLEAN
    /\ queueJobs = [j \in JobIds |-> [state |-> "none", conversionId |-> 0]]
    /\ runs = <<>>
    /\ reqs = [r \in Reqs |-> IdleReq]
    /\ videoFiles = [u \in 1..MaxUploads |-> NoVideoFile]
    /\ IdleProgress
    /\ IdleUpload
    /\ IdleFetches

NextConv ==
    \/ \E r \in Reqs :
        \/ ReqStart(r)
        \/ ReqCheck(r)
        \/ ReqRetry(r)
        \/ ReqCreate(r)
        \/ ReqEnqueue(r)
        \/ ReqFinish(r)
    \/ \E j \in JobIds :
        \/ Deliver(j)
        \/ Redeliver(j)
    \/ \E k \in 1..MaxRuns :
        \/ RunStart(k)
        \/ RunConvert(k)
        \/ RunEngineEnd(k)
        \/ RunEngineError(k)
        \/ RunUploadSegment(k)
        \/ RunMarkReady(k)
        \/ RunCheckAll(k)
        \/ RunFinish(k)
        \/ RunCatch(k)
        \/ RunCatchOuter(k)

SpecConv == InitConv /\ [][NextConv]_vars

\* the worker takes the jobs that wait, every call of a handler or of the
\* engine returns or throws, and a request that was received is answered
FairConv ==
    /\ \A j \in JobIds : WF_vars(Deliver(j))
    /\ \A r \in Reqs :
        WF_vars(ReqCheck(r) \/ ReqRetry(r) \/ ReqCreate(r) \/ ReqEnqueue(r)
                    \/ ReqFinish(r))
    /\ \A k \in 1..MaxRuns :
        WF_vars(RunStart(k) \/ RunConvert(k) \/ RunEngineEnd(k)
                    \/ RunEngineError(k) \/ RunUploadSegment(k)
                    \/ RunMarkReady(k) \/ RunCheckAll(k) \/ RunFinish(k)
                    \/ RunCatch(k) \/ RunCatchOuter(k))

SpecConvFair == InitConv /\ [][NextConv]_vars /\ FairConv

\* the server after start: nothing uploaded yet
InitUpload ==
    /\ \/ FreshPool
       \/ NoActivePool
    /\ EmptyStore
    /\ IdleConv
    /\ IdleProgress
    /\ IdleUpload
    /\ IdleFetches

NextUpload ==
    \/ UploadInit
    \/ \E u \in UploadIds :
        \/ AcceptChunk(u)
        \/ CompleteReaddir(u)
        \/ CompleteCombine(u)
        \/ CompletePut(u)
        \/ CompleteUpdate(u)
        \/ CompleteCleanup(u)

SpecUpload == InitUpload /\ [][NextUpload]_vars

\* the server at start: the accounts stored, none loaded yet; each blob on
\* one account's drive or on none
InitFetch ==
    /\ accounts = [i \in AccountIds |->
                      [id |-> i, storageLimit |-> 100, storageUsed |-> 0,
                       isActive |-> TRUE]]
    /\ serviceAccounts = <<>>
    /\ usedAtStart = [i \in AccountIds |-> 0]
    /\ putPc = [p \in Puts |-> "idle"]
    /\ putAcct = [p \in Puts |-> 0]
    /\ putSize = [p \in Puts |-> 0]
    /\ putRead = [p \in Puts |-> 0]
    /\ putErr = [p \in Puts |-> ""]
    /\ EmptyStore
    /\ IdleConv
    /\ IdleProgress
    /\ IdleUpload
    /\ initialized = FALSE
    /\ inits = [n \in Inits |-> IdleInit]
    /\ blobAt \in [BlobIds -> {0} \cup AccountIds]
    /\ cache = [b \in BlobIds |-> NoCacheFile]
    /\ clock = 0
    /\ fetches = [f \in Fetches |-> IdleFetch]

NextFetch ==
    \/ Tick
    \/ \E n \in Inits :
        \/ InitGetAccounts(n)
        \/ InitLoadServiceAccount(n)
    \/ \E f \in Fetches :
        \/ FetchCheck(f)
        \/ FetchProbe(f)
        \/ FetchStreamData(f)
        \/ FetchStreamEnd(f)

SpecFetch == InitFetch /\ [][NextFetch]_vars

\* one engine run of a conversion that is processing
InitProgress ==
    /\ FreshPool
    /\ EmptyStore
    /\ IdleConv
    /\ IdleProgress
    /\ IdleUpload
    /\ IdleFetches

NextProgress ==
    \/ \E v \in Percents : ProgressEvent(v)
    \/ \E c \in 1..MaxCallbacks :
        \/ ProgressWrite(c)
        \/ ProgressResume(c)

SpecProgress == InitProgress /\ [][NextProgress]_vars

(***************************************************************************)
(* Storage pool: claims.                                                   *)
(***************************************************************************)
PutsInFlight == {p \in Puts : putPc[p] \in {"selected", "created", "read"}}

DoneSizeOn(id) ==
    SumOver({p \in Puts : putPc[p] = "done" /\ putAcct[p] = id}, putSize)

\* C1: once no uploadFile call is in flight, every account's stored usage is
\* its starting value plus the sizes of all files successfully uploaded
\* through it, whatever the interleaving of the calls (no lost increment).
C1_NoLostIncrement ==
    PutsInFlight = {} =>
        \A i \in 1..Len(accounts) :
            accounts[i].storageUsed
                = usedAtStart[accounts[i].id] + DoneSizeOn(accounts[i].id)

FreeSpace(a) == a.storageLimit - a.storageUsed
\* free fraction (limit - used) / limit below the reserve margin
BelowMargin(a) == 100 * FreeSpace(a) < ReserveMarginPercent * a.storageLimit
ActiveAtOrAboveMargin(accs) ==
    {i \in 1..Len(accs) : accs[i].isActive /\ ~BelowMargin(accs[i])}

\* C2: a selection never returns an account below the reserve margin while an
\* active account at or above the margin exists, and fails with PoolExhausted
\* when every active account is below the margin.
C2_ReserveMargin ==
    [][\A p \in Puts :
        (putPc[p] = "idle" /\ putPc'[p] # "idle") =>
            /\ (putPc'[p] = "selected" /\ BelowMargin(GetAccount(accounts, putAcct'[p])))
                  => ActiveAtOrAboveMargin(accounts) = {}
            /\ ActiveAtOrAboveMargin(accounts) = {}
                  => (putPc'[p] = "failed"
                      /\ putErr'[p] = "NoActiveAccountWithFreeSpace")]_vars

\* free fraction above the comfort margin
Comfortable(a) == 100 * FreeSpace(a) > ComfortMarginPercent * a.storageLimit
\* the tier a selection is to be made from: the comfortable accounts among
\* those at or above the reserve margin, or all of those when none is
PreferredTier(accs) ==
    LET cleared == ActiveAtOrAboveMargin(accs)
        comfort == {i \in cleared : Comfortable(accs[i])}
    IN  IF comfort # {} THEN comfort ELSE cleared

\* uploadFile call p selects an account in this step
Selects(p) == putPc[p] = "idle" /\ putPc'[p] = "selected"

\* C21: while an active account at or above the reserve margin exists, the
\* selected account is one above the comfort margin if there is one, and
\* has the most free bytes of its tier.
C21_ComfortTierFirst ==
    [][\A p \in Puts :
        (Selects(p) /\ ActiveAtOrAboveMargin(accounts) # {}) =>
            \E i \in PreferredTier(accounts) :
                /\ accounts[i].id = putAcct'[p]
                /\ \A j \in PreferredTier(accounts) :
                     FreeSpace(accounts[j]) <= FreeSpace(accounts[i])]_vars

\* the active accounts with the most free bytes
MostFree(accs) ==
    {i \in 1..Len(accs) :
        /\ accs[i].isActive
        /\ \A j \in 1..Len(accs) :
             accs[j].isActive => FreeSpace(accs[j]) <= FreeSpace(accs[i])}

\* C22: the selection does not depend on the order the store lists the
\* accounts in: of the accounts with the most free bytes the one with the
\* smallest id is selected.
C22_SelectionOrderIndependent ==
    [][\A p \in Puts :
        Selects(p) =>
            \E i \in MostFree(accounts) :
                /\ accounts[i].id = putAcct'[p]
                /\ \A j \in MostFree(accounts) :
                     accounts[i].id <= accounts[j].id]_vars

(***************************************************************************)
(* Conversion pipeline: claims.                                            *)
(***************************************************************************)
AllowedStatusChanges ==
    {<<"waiting", "processing">>, <<"processing", "ready">>,
     <<"processing", "failed">>, <<"failed", "waiting">>}

\* C3: a conversion's status changes only along waiting->processing,
\* processing->ready, processing->failed and failed->waiting, whatever the
\* requests, deliveries (duplicates included), engine events and failures.
C3_StatusTransitions ==
    [][\A c \in DOMAIN conversions :
        conversions'[c].status # conversions[c].status =>
            <<conversions[c].status, conversions'[c].status>>
                \in AllowedStatusChanges]_vars

Pairs == (1..MaxUploads) \X Resolutions

\* the conversions of a pair that are waiting or processing
ActiveConversions(pair) ==
    {c \in DOMAIN conversions :
        /\ conversions[c].uploadId = pair[1]
        /\ conversions[c].resolution = pair[2]
        /\ conversions[c].status \in {"waiting", "processing"}}

\* C4: at every moment at most one conversion of a given (uploadId,
\* resolution) is waiting or processing, also when two create requests for
\* the pair interleave and when a request lists a resolution twice.
C4_OneActiveJobPerPair ==
    \A pair \in Pairs : Cardinality(ActiveConversions(pair)) <= 1

\* the chunk records stored for a pair
ChunksOf(pair) ==
    {c \in DOMAIN chunks :
        chunks[c].uploadId = pair[1] /\ chunks[c].resolution = pair[2]}

\* no worker invocation for the pair is under way
AttemptsOver(pair) ==
    \A k \in ActiveRuns :
        ~(runs[k].uploadId = pair[1] /\ runs[k].resolution = pair[2])

\* C5: after any sequence of conversion attempts for a pair (a part-way
\* failure, an operator retry, a duplicate delivery), the indices of the
\* pair's chunk records are exactly 0..N-1, each occurring once.
C5_ChunkIndicesContiguous ==
    \A pair \in Pairs :
        AttemptsOver(pair) =>
            \A i \in 0..(Cardinality(ChunksOf(pair)) - 1) :
                Cardinality({c \in ChunksOf(pair) : chunks[c].index = i}) = 1

\* the conversions the worker has brought to ready
ReadyConversions ==
    {c \in DOMAIN conversions : ~mockQueue /\ conversions[c].status = "ready"}

\* C6: once the conversion of a pair is ready, generatePlaylist for the pair
\* has exactly one entry per segment the engine produced, in ascending index
\* order 0..K-1, each entry naming the chunk record's own id.
C6_PlaylistAfterReady ==
    \A c \in ReadyConversions :
        LET pl == GeneratePlaylist(chunks, conversions[c].uploadId,
                                   conversions[c].resolution)
        IN  /\ pl.ok
            /\ Len(pl.entries) = SegmentsOf(conversions[c].uploadId)
            /\ \A j \in 1..Len(pl.entries) :
                /\ pl.entries[j].chunkId \in DOMAIN chunks
                /\ chunks[pl.entries[j].chunkId].index = j - 1

\* the runs that are uploading and recording their segments
RunsUploading ==
    {k \in DOMAIN runs :
        /\ runs[k].pc = "upload"
        /\ conversions[runs[k].conversionId].status = "processing"}

\* C7: while the conversion of a pair is processing, its segments being
\* recorded one at a time, a manifest request for the pair fails with
\* NoSegments or has no entries; it never lists a prefix of the segments
\* and ends the list as if the stream were complete.
C7_NoTruncatedPlaylist ==
    \A k \in RunsUploading :
        LET pl == GeneratePlaylist(chunks, runs[k].uploadId, runs[k].resolution)
        IN  ~pl.ok \/ pl.entries = <<>>

(***************************************************************************)
(* Chunked upload: claims.                                                 *)
(***************************************************************************)
\* the indices the upload's chunk requests carried
SubmittedIndices(u) == {submitted[u][j][1] : j \in DOMAIN submitted[u]}

\* the chunk requests cover 0..N-1
Covers(u) ==
    SubmittedIndices(u) = 0..(Cardinality(SubmittedIndices(u)) - 1)

\* the bytes of the last chunk request for index i
LastSubmitted(u, i) ==
    LET js == {j \in DOMAIN submitted[u] : submitted[u][j][1] = i}
        last == CHOOSE j \in js : \A k \in js : k <= j
    IN  submitted[u][last][2]

\* the last bytes of indices i..n-1, concatenated in index order
RECURSIVE ConcatLast(_, _, _)
ConcatLast(u, i, n) ==
    IF i >= n THEN <<>> ELSE LastSubmitted(u, i) \o ConcatLast(u, i + 1, n)

\* no chunk request arrived since the completion read the directory
QuietSinceReaddir(u) == Len(submitted[u]) = completes[u].seen

IndicesPresent(dir) ==
    IF dir.exists
    THEN {i \in ChunkIndices : ChunkName(i) \in DOMAIN dir.files}
    ELSE {}

\* the indices present are not a gap-free range starting at 0
Gapped(dir) ==
    IndicesPresent(dir) # 0..(Cardinality(IndicesPresent(dir)) - 1)

C10_CompleteMarksReady ==
    \A u \in DOMAIN uploads :
        (completes[u].pc = "succeeded" /\ QuietSinceReaddir(u)) =>
            /\ uploads[u].status = "ready"
            /\ uploads[u].externalFileId = completes[u].externalFileId
            /\ uploads[u].externalFileId # Pending
            /\ ~scratch[u].exists
            /\ ~outFiles[u].exists
            /\ \A v \in DOMAIN uploads \ {u} :
                completes[v].pc \notin {"updated", "succeeded"} =>
                    /\ uploads[v].status = "processing"
                    /\ uploads[v].externalFileId = Pending

\* C11: when uploadFile throws inside a completion, the completion fails,
\* the step changes no upload record (the upload is not set ready and keeps
\* 'pending') and no account's storageUsed, and the failed completion does
\* nothing afterwards.
C11_PutFailureLeavesNoTrace ==
    [][\A u \in UploadIds :
        /\ (completes[u].pc = "combined" /\ completes'[u].pc = "failed")
           => /\ completes'[u].err = "put"
              /\ uploads' = uploads
              /\ accounts' = accounts
        /\ (completes[u].pc = "failed" /\ completes[u].err = "put")
           => /\ completes'[u] = completes[u]
              /\ ~ENABLED CompleteUpdate(u)]_vars

\* a completion whose put failed, once with no active account and once
\* after the drive had taken the file
C11_Witness ==
    \E u \in DOMAIN uploads :
        /\ completes[u].pc = "failed"
        /\ completes[u].err = "put"
        /\ uploads[u].status = "processing"
        /\ uploads[u].externalFileId = Pending
        /\ \/ \A i \in DOMAIN accounts : ~accounts[i].isActive
           \/ drive # <<>>
        /\ \A i \in DOMAIN accounts : accounts[i].storageUsed = 0

(***************************************************************************)
(* Conversion requests: frame claims.                                      *)
(***************************************************************************)
\* the pair a request is asking about in its current loop turn
TurnPair(r) == <<reqs[r].uploadId, reqs[r].resolutions[reqs[r].idx]>>

\* request r looks up its pair in this step
LooksUp(r) == reqs[r].pc = "check" /\ reqs'[r] # reqs[r]

\* the entry the step has added to the response
Pushed(r) == reqs'[r].jobs[Len(reqs'[r].jobs)]

\* C12: a request for a pair that already has a conversion waiting or
\* processing reports that conversion's id and current status, creates no
\* conversion, enqueues nothing and leaves the conversion's status and
\* progress as they are.
C12_ActiveJobReturned ==
    [][\A r \in Reqs :
        (LooksUp(r) /\ ActiveConversions(TurnPair(r)) # {}) =>
            /\ reqs'[r].pc \notin {"create", "retry", "enqueue"}
            /\ Len(reqs'[r].jobs) = Len(reqs[r].jobs) + 1
            /\ Pushed(r).conversionId \in ActiveConversions(TurnPair(r))
            /\ Pushed(r).status = conversions[Pushed(r).conversionId].status
            /\ conversions' = conversions
            /\ queueJobs' = queueJobs]_vars

\* the conversion request r finds for its pair, 0 when there is none
Found(r) == FindConversion(conversions, reqs[r].uploadId, TurnPair(r)[2])

\* request r answers, every resolution it listed reported as ready
AnswersAllReady(r) ==
    /\ reqs[r].pc = "finish"
    /\ reqs'[r].pc = "done"
    /\ \A j \in DOMAIN reqs[r].jobs : reqs[r].jobs[j].status = "ready"

\* C13: a request for a resolution whose conversion is ready reports it as
\* ready, creates and enqueues nothing and leaves the conversion as it is;
\* a request that found all its resolutions ready leaves the upload's own
\* status as it is (a ready upload is still ready after it).
C13_ReadyRequestNoOp ==
    [][\A r \in Reqs :
        /\ (LooksUp(r) /\ Found(r) # 0 /\ conversions[Found(r)].status = "ready")
           => /\ reqs'[r].pc \notin {"create", "retry", "enqueue"}
              /\ Pushed(r) = [conversionId |-> Found(r), status |-> "ready"]
              /\ conversions' = conversions
              /\ queueJobs' = queueJobs
        /\ AnswersAllReady(r) => uploads' = uploads]_vars

(***************************************************************************)
(* Upload status after the conversions: claims.                            *)
(***************************************************************************)
\* no request is being handled, no job is queued or running
ConvQuiescent ==
    /\ \A r \in Reqs : reqs[r].pc \in {"idle", "done"}
    /\ ActiveRuns = {}
    /\ \A j \in JobIds : queueJobs[j].state \notin {"wait", "active"}

\* the statuses of the conversions of an upload
StatusesOf(u) ==
    {conversions[c].status : c \in Range(ConversionsByUploadId(conversions, u))}

\* C14: once every conversion of an upload is ready or failed and at least
\* one is ready, the upload's status is ready, whatever the order in which
\* the conversions finished, the last one failing included.
C14_UploadReadyWhenAnyReady ==
    \A u \in DOMAIN uploads :
        (/\ ConvQuiescent
         /\ StatusesOf(u) \subseteq {"ready", "failed"}
         /\ "ready" \in StatusesOf(u))
        => uploads[u].status = "ready"

\* C15: once every conversion of an upload has ended failed, the upload's
\* status is failed; it does not stay processing.
C15_UploadFailedWhenAllFailed ==
    \A u \in DOMAIN uploads :
        (/\ ConvQuiescent
         /\ StatusesOf(u) = {"failed"})
        => uploads[u].status = "failed"

(***************************************************************************)
(* Segment cache and downloads: claims.                                    *)
(***************************************************************************)
\* call f starts in this step, on blob b
StartsFetch(f, b) ==
    fetches[f].pc = "idle" /\ fetches'[f].pc # "idle" /\ fetches'[f].blob = b

\* no other call is under way
FetchedAlone(f) ==
    \A g \in Fetches \ {f} : fetches[g].pc \in {"idle", "returned", "failed"}

\* C16: a call that follows a completed download of the same blob returns
\* the cached path without a provider download when the file is younger
\* than the 7-day TTL, and downloads again when it is not.
C16_OneDownloadWithinTtl ==
    [][\A f \in Fetches, b \in BlobIds :
        (StartsFetch(f, b) /\ FetchedAlone(f) /\ cache[b].content = "full") =>
            IF clock - cache[b].mtime < SegmentCacheTtlHours
            THEN /\ fetches'[f].pc = "returned"
                 /\ fetches'[f].result = "cached"
            ELSE fetches'[f].pc = "probe"]_vars

\* C17: the path a call returns always names a completely downloaded file,
\* also when another call is still downloading the same blob: no call is
\* handed a file that is only partly written.
C17_ReturnedFileComplete ==
    \A f \in Fetches :
        fetches[f].pc = "returned" => fetches[f].served = "full"

\* no element occurs twice in the sequence
NoDuplicates(seq) ==
    \A i, j \in DOMAIN seq : i # j => seq[i] # seq[j]

\* call f gives up in this step, the blob found on no account
FailsNotFound(f) ==
    /\ fetches[f].pc = "probe"
    /\ fetches'[f].pc = "failed"
    /\ fetches'[f].response = "notFound"

\* C18: a downloadFile call probes each account at most once and throws
\* 'File not found' only after every registered account has answered not
\* found; no interleaving of initialize and loadServiceAccount registers an
\* account twice.
C18_ProbeOncePerAccount ==
    [][/\ NoDuplicates(serviceAccounts')
       /\ \A f \in Fetches :
            /\ NoDuplicates(fetches'[f].probed)
            /\ FailsNotFound(f) =>
                 Range(fetches[f].probed) = Range(serviceAccounts)]_vars

\* the provider answers call f in this step
Answered(f, resp) ==
    /\ fetches[f].pc = "probe"
    /\ Len(fetches'[f].probed) = Len(fetches[f].probed) + 1
    /\ fetches'[f].response = resp

\* C19: a provider call answered with a rate limit is tried again, its
\* error not reaching the caller while attempts remain (the call's first
\* attempt is never its last); any other error is thrown without retry.
C19_RateLimitRetried ==
    [][\A f \in Fetches :
        /\ Answered(f, "rateLimited") => fetches'[f].pc # "failed"
        /\ Answered(f, "error") => fetches'[f].pc = "failed"]_vars

(***************************************************************************)
(* Retrying a failed conversion: claims.                                   *)
(***************************************************************************)
\* request r takes the failed branch for conversion c in this step
RetriedBy(r, c) ==
    /\ reqs[r].pc = "retry"
    /\ reqs[r].conversionId = c
    /\ reqs'[r].pc = "enqueue"

\* request r calls addHlsConversionJob in this step, for a job the queue
\* holds as failed
ReaddsFailedJob(r) ==
    /\ ~mockQueue
    /\ reqs[r].pc = "enqueue"
    /\ reqs'[r].pc # "enqueue"
    /\ queueJobs[JobId(reqs[r].uploadId,
                       reqs[r].resolutions[reqs[r].idx])].state = "failed"

\* C20: a failed conversion leaves failed only through a request's retry
\* branch, which sets it waiting with progress 0; the add that follows under
\* the same job id is not dropped: the job is waiting in the queue again, to
\* be delivered.
C20_RetryReenqueues ==
    [][/\ \A c \in DOMAIN conversions :
            (conversions[c].status = "failed"
                /\ conversions'[c].status # "failed") =>
                /\ \E r \in Reqs : RetriedBy(r, c)
                /\ conversions'[c].status = "waiting"
                /\ conversions'[c].progress = 0
       /\ \A r \in Reqs :
            ReaddsFailedJob(r) =>
                queueJobs'[JobId(reqs[r].uploadId,
                                 reqs[r].resolutions[reqs[r].idx])].state
                    = "wait"]_vars

(***************************************************************************)
(* Master playlist: claims.                                                *)
(***************************************************************************)
\* the resolution of the upload is available for playback: a conversion of
\* the pair has been brought to ready
Available(uploadId, resolution) ==
    \E c \in ReadyConversions :
        /\ conversions[c].uploadId = uploadId
        /\ conversions[c].resolution = resolution

\* C23: the master playlist of an upload has exactly one entry for every
\* resolution available for playback, pointing to that upload's playlist of
\* the resolution, and none for a resolution whose conversion is still
\* processing or has failed part-way.
C23_MasterListsAvailable ==
    \A u \in DOMAIN uploads :
        LET master == GenerateMasterPlaylist(chunks, u)
        IN  /\ \A j \in DOMAIN master : master[j].uploadId = u
            /\ \A res \in Resolutions :
                 Cardinality({j \in DOMAIN master : master[j].resolution = res})
                    = IF Available(u, res) THEN 1 ELSE 0

(***************************************************************************)
(* Concurrent conversions of one upload: claims.                           *)
(***************************************************************************)
\* the runs whose engine is reading the source at videoPath
RunsTranscoding == {k \in DOMAIN runs : runs[k].pc = "engine"}

\* C24: a run that is transcoding reads the copy of the source that its own
\* download wrote: no other run's download has overwritten the file and no
\* other run's cleanup has deleted it.
C24_OwnSourceCopy ==
    \A k \in RunsTranscoding :
        videoFiles[runs[k].uploadId] = [content |-> "full", by |-> k]

(***************************************************************************)
(* The status of an upload: claims.                                        *)
(***************************************************************************)
\* C25: the status of an upload changes only from processing, to ready or
\* to failed: an upload that is ready never returns to processing, whatever
\* conversion or retry requests follow.
C25_ReadyIsFinal ==
    [][\A u \in DOMAIN uploads :
        uploads'[u].status # uploads[u].status =>
            /\ uploads[u].status = "processing"
            /\ uploads'[u].status \in {"ready", "failed"}]_vars

(***************************************************************************)
(* Progress of a conversion: claims.                                       *)
(***************************************************************************)
\* the progress value stored before the i-th write of the run, 0 at first
PersistedBefore(i) == IF i = 1 THEN 0 ELSE persisted[i - 1]

\* C26: each progress value written to the store is at least 5 points above
\* the value written before it, also when a callback fires while an earlier
\* one is still awaiting its write.
C26_ProgressStepsOfFive ==
    \A i \in DOMAIN persisted :
        persisted[i] >= PersistedBefore(i) + ProgressStep

(***************************************************************************)
(* Termination of conversions: claims.                                     *)
(***************************************************************************)
ConversionIds == 1..(NumReqs * MaxResolutionsPerRequest)

Created(c) == c \in DOMAIN conversions
Terminal(c) ==
    /\ c \in DOMAIN conversions
    /\ conversions[c].status \in {"ready", "failed"}

\* a job waits in the queue that the worker is not given within the bounds
\* on runs
DeliveryCapped ==
    /\ \E j \in JobIds : queueJobs[j].state = "wait"
    /\ Len(runs) >= MaxRuns \/ HandlersStarted >= MaxHandlers

\* C27: when the queue delivers its jobs and every call returns, every
\* conversion that is created is eventually ready or failed.
C27_ConversionsTerminate ==
    \A c \in ConversionIds : Created(c) ~> (Terminal(c) \/ DeliveryCapped)

(***************************************************************************)
(* Failed downloads: claims.                                               *)
(***************************************************************************)
\* what a download that failed has left at the cache path of blob b: no
\* call is writing the file and it is not complete
LeftByFailedDownload(b) ==
    /\ cache[b].content \in {"empty", "partial", "mixed"}
    /\ \A g \in Fetches :
        fetches[g].blob = b => fetches[g].pc \in {"idle", "returned", "failed"}

\* C28: a download that fails leaves nothing at the cache path that a later
\* call accepts as a cache entry: the next call for the blob downloads again.
C28_FailedDownloadNotCached ==
    [][\A f \in Fetches, b \in BlobIds :
        (StartsFetch(f, b) /\ LeftByFailedDownload(b)) =>
            fetches'[f].pc = "probe"]_vars

(***************************************************************************)
(* Truncated uploads: claims.                                              *)
(***************************************************************************)
\* totalChunks of the init request: every upload announces chunks
\* 0..MaxChunkIndex
AnnouncedChunks == MaxChunkIndex + 1

\* the completion of upload u sets an upload record ready in this step
MarksReady(u) ==
    /\ completes[u].pc = "stored"
    /\ completes'[u].pc = "updated"
    /\ \E t \in DOMAIN uploads :
        uploads[t].status # "ready" /\ uploads'[t].status = "ready"

\* C29: a completion sets an upload ready only when the file it assembled
\* and stored holds every chunk announced at init; an upload whose last
\* chunks never arrived is not made ready with a truncated file.
C29_ReadyOnlyWhenWhole ==
    [][\A u \in UploadIds :
        MarksReady(u) => completes[u].totalChunks = AnnouncedChunks]_vars

(***************************************************************************)
(* Aggregate status of an upload's conversions: claims.                    *)
(***************************************************************************)
\* C30: the aggregate status agrees with the conversions of the upload: it
\* is waiting only when a conversion is waiting, processing only when one is
\* processing, and failed when every conversion has failed.
C30_AggregateAgrees ==
    \A u \in DOMAIN uploads :
        LET status == AggregateStatus(conversions, u)
        IN  /\ status = "waiting" => "waiting" \in StatusesOf(u)
            /\ status = "processing" => "processing" \in StatusesOf(u)
            /\ StatusesOf(u) = {"failed"} => status = "failed"

====
